---- MODULE Spec2Model ----
(***************************************************************************)
(* Charlotte Bar Deals backend (src/backend/server.js): the events table,  *)
(* the public GET /events query and the admin routes, one action per       *)
(* route handler.                                                          *)
(*                                                                         *)
(* Value encoding.  A JavaScript value that may be null/undefined is an    *)
(* option: None == <<>> for null/undefined, Some(v) == <<v>> otherwise.    *)
(* Text that the code only tests for emptiness is a TLA+ string; text that *)
(* the code splits, trims or lower-cases (event types, query parameters)   *)
(* is a sequence of one-character strings.  A Date is a record             *)
(* [valid, d, s]: calendar day number d (day 0 = 1970-01-01) and second of *)
(* the day s; valid = FALSE is JavaScript's Invalid Date.  A date string   *)
(* in a request is a record [k, d, s] with k = "iso" (parseable),          *)
(* "garbage" (unparseable) or "empty" (the empty string).                  *)
(***************************************************************************)
EXTENDS Integers, Sequences, FiniteSets, TLC

VARIABLES events, nextId, adminToken, req, resp, lookups

vars == <<events, nextId, adminToken, req, resp, lookups>>

\* ------------------------------------------------------------------ bounds
MaxRows == 2          \* rows the table may hold before a CRUD request adds more
MaxSpan == 203        \* furthest recurrence_until, in days after day 0
MinSpan == 8          \* the near recurrence_until days run from day 0 to this
MaxCsvRows == 1       \* data rows of an imported CSV in the recurrence runs

\* ------------------------------------------------------- program constants
CapInstances == 200   \* if (instances.length > 200) break;
PublicLimit == 200    \* ORDER BY start_time ASC LIMIT 200
AdminLimit == 500     \* ORDER BY start_time DESC LIMIT 500
DefaultDailyDays == 30
DefaultWeeklyWeeks == 8

\* ------------------------------------------------------------------ values
None == <<>>
Some(v) == <<v>>
IsNull(o) == o = None

\* !x for a string-valued option: null, undefined and "" are falsy
FalsyStr(o) == o = None \/ o[1] = ""
\* !x for a character-sequence option
FalsyChars(o) == o = None \/ o[1] = <<>>
\* !x for a date-string option
FalsyDateStr(o) == o = None \/ o[1].k = "empty"
\* x || null
OrNullStr(o) == IF FalsyStr(o) THEN None ELSE o
OrNullDateStr(o) == IF FalsyDateStr(o) THEN None ELSE o

Iso(d, s) == [k |-> "iso", d |-> d, s |-> s]
Garbage == [k |-> "garbage", d |-> 0, s |-> 0]
EmptyDateStr == [k |-> "empty", d |-> 0, s |-> 0]

Date(d, s) == [valid |-> TRUE, d |-> d, s |-> s]
InvalidDate == [valid |-> FALSE, d |-> 0, s |-> 0]

\* the second of the day at h:m:sec
HMS(h, m, sec) == (h * 60 + m) * 60 + sec
Epoch == Date(0, 0)

\* new Date(string)
ParseDate(str) == IF str.k = "iso" THEN Date(str.d, str.s) ELSE InvalidDate

\* new Date(x) for x a Date or null: a copy, and new Date(null) is the epoch
NewDate(o) == IF o = None THEN Epoch ELSE o[1]

\* a < b in place of a <= b
DateLeqStrict(a, b) ==
  /\ a.valid
  /\ b.valid
  /\ (a.d < b.d \/ (a.d = b.d /\ a.s < b.s))

\* a <= b on Dates: every comparison with an Invalid Date (NaN) is false
DateLeq(a, b) ==
  /\ a.valid
  /\ b.valid
  /\ (a.d < b.d \/ (a.d = b.d /\ a.s <= b.s))

\* ----------------------------------------------------------------- helpers
toTimestamp(dt) == IF FalsyDateStr(dt) THEN None ELSE Some(ParseDate(dt[1]))

addDays(d, n) == IF d.valid THEN Date(d.d + n, d.s) ELSE InvalidDate

addWeeks(d, n) == addDays(d, n * 7)

\* the step function of a recurrence: days to advance, 0 when step is null
StepDays(recurrence) ==
  IF recurrence = "daily" THEN 1
  ELSE IF recurrence = "weekly" THEN 7
  ELSE 0

\* const until = recurrence_until ? new Date(recurrence_until) : (defaults)
UntilOf(start, recurrence, recurrence_until) ==
  IF ~FalsyDateStr(recurrence_until) THEN ParseDate(recurrence_until[1])
  ELSE IF recurrence = "daily" THEN addDays(NewDate(start), DefaultDailyDays)
  ELSE IF recurrence = "weekly" THEN addWeeks(NewDate(start), DefaultWeeklyWeeks)
  ELSE NewDate(start)

\* The while loop of the expansion, on the loop state st = [currentStart,
\* currentEnd, instances, broke]:
\*   while (currentStart <= until) {
\*     instances.push({start, end}); currentStart = step(currentStart);
\*     if (currentEnd) currentEnd = step(currentEnd);
\*     if (instances.length > 200) break; }
LoopRuns(st, until) == ~st.broke /\ DateLeq(st.currentStart, until)

\* the loop body without the step of currentEnd
LoopBodyKeepsEnd(st, n) ==
  LET pushed == Append(st.instances, [start |-> st.currentStart, end |-> st.currentEnd])
  IN [currentStart |-> addDays(st.currentStart, n),
      currentEnd |-> st.currentEnd,
      instances |-> pushed,
      broke |-> Len(pushed) > CapInstances]

LoopBody(st, n) ==
  LET pushed == Append(st.instances, [start |-> st.currentStart, end |-> st.currentEnd])
  IN [currentStart |-> addDays(st.currentStart, n),
      currentEnd |-> IF st.currentEnd = None THEN None
                     ELSE Some(addDays(st.currentEnd[1], n)),
      instances |-> pushed,
      broke |-> Len(pushed) > CapInstances]

\* The loop runs at most CapInstances + 1 times.  It is evaluated as
\* BlockLen blocks of at most BlockLen iterations, which keeps the depth of
\* the recursion at 2 * BlockLen.  (CHOOSE r \in {F(v) : v \in {e}} : TRUE is
\* F(e) with e evaluated once.)
BlockLen == CHOOSE b \in 1..(CapInstances + 2) :
              /\ b * b > CapInstances + 1
              /\ (b - 1) * (b - 1) <= CapInstances + 1

RECURSIVE Iterate(_, _, _, _)
Iterate(st, until, n, k) ==
  IF k = 0 \/ ~LoopRuns(st, until) THEN st
  ELSE CHOOSE r \in {Iterate(next, until, n, k - 1) : next \in {LoopBody(st, n)}} : TRUE

RECURSIVE Blocks(_, _, _, _)
Blocks(st, until, n, m) ==
  IF m = 0 THEN st
  ELSE CHOOSE r \in {Iterate(done, until, n, BlockLen) :
                       done \in {Blocks(st, until, n, m - 1)}} : TRUE

ExpandLoop(currentStart, currentEnd, until, n) ==
  Blocks([currentStart |-> currentStart, currentEnd |-> currentEnd,
          instances |-> << >>, broke |-> FALSE],
         until, n, BlockLen).instances

\* the recurrence expansion shared by POST /admin/events and POST /admin/import
Expand(start, end, recurrence, recurrence_until) ==
  LET until == UntilOf(start, recurrence, recurrence_until)
      currentStart == NewDate(start)
      currentEnd == IF end = None THEN None ELSE Some(NewDate(end))
      n == StepDays(recurrence)
  IN IF n = 0 THEN << [start |-> currentStart, end |-> currentEnd] >>
     ELSE ExpandLoop(currentStart, currentEnd, until, n)

\* --------------------------------------------------------------- responses
ServerError == [status |-> 500, error |-> "Server error"]
Required == [status |-> 400, error |-> "name, type, start_time are required"]
NotFound == [status |-> 404, error |-> "Not found"]

\* -------------------------------------------------------------- admin auth
\* the check that lets every request through while no secret is configured
requireAdminOpen(token, secret) ==
  IF FalsyStr(secret) THEN 0
  ELSE IF token # secret THEN 401
  ELSE 0

\* requireAdmin: 0 stands for next(), otherwise the status it answers with
requireAdmin(token, secret) ==
  IF FalsyStr(secret) THEN 500
  ELSE IF token # secret THEN 401
  ELSE 0

AuthError(status) ==
  IF status = 500 THEN [status |-> 500, error |-> "ADMIN_TOKEN not set on server"]
  ELSE [status |-> 401, error |-> "Unauthorized"]

\* ------------------------------------------------------------ geo resolver
\* geoRes is what the external lookup would answer: [k |-> "hit", lat, lon],
\* [k |-> "empty"] (no candidates) or [k |-> "fail"] (transport failure).
GeoHit(lat, lon) == [k |-> "hit", lat |-> lat, lon |-> lon]
GeoEmpty == [k |-> "empty", lat |-> 0, lon |-> 0]
GeoFail == [k |-> "fail", lat |-> 0, lon |-> 0]

\* the lookup made for every address, given coordinates or not
geocodeAlways(address, lat, lon, geoRes) ==
  IF FalsyStr(address)
    THEN [threw |-> FALSE, looked |-> FALSE, lat |-> lat, lon |-> lon]
  ELSE IF geoRes.k = "fail"
    THEN [threw |-> TRUE, looked |-> TRUE, lat |-> None, lon |-> None]
  ELSE IF geoRes.k = "hit"
    THEN [threw |-> FALSE, looked |-> TRUE,
          lat |-> Some(geoRes.lat), lon |-> Some(geoRes.lon)]
  ELSE [threw |-> FALSE, looked |-> TRUE, lat |-> None, lon |-> None]

\* result: threw (fetch rejected), looked (a lookup was issued), lat, lon
geocodeIfNeeded(address, lat, lon, geoRes) ==
  IF lat # None /\ lon # None
    THEN [threw |-> FALSE, looked |-> FALSE, lat |-> lat, lon |-> lon]
  ELSE IF FalsyStr(address)
    THEN [threw |-> FALSE, looked |-> FALSE, lat |-> None, lon |-> None]
  ELSE IF geoRes.k = "fail"
    THEN [threw |-> TRUE, looked |-> TRUE, lat |-> None, lon |-> None]
  ELSE IF geoRes.k = "hit"
    THEN [threw |-> FALSE, looked |-> TRUE,
          lat |-> Some(geoRes.lat), lon |-> Some(geoRes.lon)]
  ELSE [threw |-> FALSE, looked |-> TRUE, lat |-> None, lon |-> None]

\* ------------------------------------------------------------------- store
\* the row INSERT writes for ev, with the id the sequence assigns
InsertedRow(ev, id) ==
  [id |-> id,
   name |-> ev.name,
   type |-> ev.type,
   description |-> OrNullStr(ev.description),
   address_name |-> OrNullStr(ev.address_name),
   address |-> OrNullStr(ev.address),
   location |-> IF ev.lat # None /\ ev.lon # None
                THEN Some([lon |-> ev.lon[1], lat |-> ev.lat[1]])
                ELSE None,
   start_time |-> ev.start_time,
   end_time |-> ev.end_time]

\* the timestamp columns reject an Invalid Date parameter
InsertRejects(ev) ==
  \/ ~ev.start_time.valid
  \/ (ev.end_time # None /\ ~ev.end_time[1].valid)

\* index of the first insert of evs that throws, 0 when none does; failAt is
\* the insert at which the storage collaborator fails (0: it never fails)
FirstFailure(evs, failAt) ==
  LET bad == {i \in 1..Len(evs) : i = failAt \/ InsertRejects(evs[i])}
  IN IF bad = {} THEN 0 ELSE CHOOSE i \in bad : \A j \in bad : i <= j

\* the inserts of a request undone when one of them fails
insertEventsRollback(store, nid, evs, failAt) ==
  LET f == FirstFailure(evs, failAt)
      ok == IF f = 0 THEN Len(evs) ELSE 0
  IN [events |-> store \cup {InsertedRow(evs[i], nid + i - 1) : i \in 1..ok},
      nextId |-> nid + ok,
      ids |-> [i \in 1..ok |-> nid + i - 1],
      threw |-> f # 0]

\* for (const ev of evs) await insertEvent(ev): rows written up to the first
\* failure, ids assigned in order from nid
insertEvents(store, nid, evs, failAt) ==
  LET f == FirstFailure(evs, failAt)
      ok == IF f = 0 THEN Len(evs) ELSE f - 1
  IN [events |-> store \cup {InsertedRow(evs[i], nid + i - 1) : i \in 1..ok},
      nextId |-> nid + ok,
      ids |-> [i \in 1..ok |-> nid + i - 1],
      threw |-> f # 0]

\* the decoding with ST_X and ST_Y exchanged
DecodeSwapped(row) ==
  [id |-> row.id,
   name |-> row.name,
   type |-> row.type,
   description |-> row.description,
   address_name |-> row.address_name,
   address |-> row.address,
   lon |-> IF row.location = None THEN None ELSE Some(row.location[1].lat),
   lat |-> IF row.location = None THEN None ELSE Some(row.location[1].lon),
   start_time |-> row.start_time,
   end_time |-> row.end_time]

\* SELECT ..., ST_X(...) AS lon, ST_Y(...) AS lat, ... of one row
Decode(row) ==
  [id |-> row.id,
   name |-> row.name,
   type |-> row.type,
   description |-> row.description,
   address_name |-> row.address_name,
   address |-> row.address,
   lon |-> IF row.location = None THEN None ELSE Some(row.location[1].lon),
   lat |-> IF row.location = None THEN None ELSE Some(row.location[1].lat),
   start_time |-> row.start_time,
   end_time |-> row.end_time]

\* the test that leaves out !type
MissingRequiredNoType(body) ==
  FalsyStr(body.name) \/ FalsyDateStr(body.start_time)

\* if (!name || !type || !start_time) return res.status(400)
MissingRequired(body) ==
  FalsyStr(body.name) \/ FalsyChars(body.type) \/ FalsyDateStr(body.start_time)

\* ------------------------------------------------------ POST /admin/events
\* recurrence = "none" and recurrence_until = null when the body omits them
BodyRecurrence(body) == IF body.recurrence = None THEN "none" ELSE body.recurrence[1]

CreateInstances(body) ==
  Expand(toTimestamp(body.start_time), toTimestamp(body.end_time),
         BodyRecurrence(body), body.recurrence_until)

CreateHandler(store, nid, secret, token, body, geoRes, failAt) ==
  LET auth == requireAdmin(token, secret)
      unchanged(r, looked) ==
        [events |-> store, nextId |-> nid, resp |-> r, lookups |-> looked]
  IN IF auth # 0 THEN unchanged(AuthError(auth), 0)
     ELSE IF MissingRequired(body)
       THEN unchanged(Required, 0)
     ELSE
       LET geo == geocodeIfNeeded(body.address, body.lat, body.lon, geoRes)
           n == IF geo.looked THEN 1 ELSE 0
       IN IF geo.threw THEN unchanged(ServerError, n)
          ELSE
            LET ev(inst) == [name |-> body.name, type |-> body.type,
                             description |-> body.description,
                             address_name |-> body.address_name,
                             address |-> body.address,
                             lat |-> geo.lat, lon |-> geo.lon,
                             start_time |-> inst.start,
                             end_time |-> inst.end]
                evs == CHOOSE r \in {[i \in 1..Len(instances) |-> ev(instances[i])] :
                                       instances \in {CreateInstances(body)}} : TRUE
                ins == CHOOSE r \in {insertEvents(store, nid, q, failAt) : q \in {evs}} : TRUE
            IN [events |-> ins.events,
                nextId |-> ins.nextId,
                resp |-> IF ins.threw THEN ServerError
                         ELSE [status |-> 200, success |-> TRUE,
                               inserted |-> Len(ins.ids), ids |-> ins.ids],
                lookups |-> n]

\* the handler applied to the current state; the request is kept in req
AdminCreate(token, body, geoRes, failAt) ==
  \E out \in {CreateHandler(events, nextId, adminToken, token, body, geoRes, failAt)} :
     /\ events' = out.events
     /\ nextId' = out.nextId
     /\ resp' = out.resp
     /\ lookups' = out.lookups
     /\ req' = [route |-> "create", token |-> token, body |-> body,
                geo |-> geoRes, failAt |-> failAt]
     /\ UNCHANGED adminToken

\* -------------------------------------------------------------------- text
\* Text as a sequence of one-character strings.
Uppers == <<"A", "B", "C", "D", "E", "F", "G", "H", "I", "J", "K", "L", "M",
            "N", "O", "P", "Q", "R", "S", "T", "U", "V", "W", "X", "Y", "Z">>
Lowers == <<"a", "b", "c", "d", "e", "f", "g", "h", "i", "j", "k", "l", "m",
            "n", "o", "p", "q", "r", "s", "t", "u", "v", "w", "x", "y", "z">>
LowerChar(c) ==
  IF \E i \in 1..Len(Uppers) : Uppers[i] = c
  THEN Lowers[CHOOSE i \in 1..Len(Uppers) : Uppers[i] = c]
  ELSE c

\* s.toLowerCase() that leaves the text as it is
LowerNot(s) == s

\* s.toLowerCase(), and LOWER(s) of the storage collaborator
Lower(s) == [i \in 1..Len(s) |-> LowerChar(s[i])]

IsSpace(c) == c = " "

RECURSIVE TrimLeft(_)
TrimLeft(s) == IF s # << >> /\ IsSpace(Head(s)) THEN TrimLeft(Tail(s)) ELSE s

RECURSIVE TrimRight(_)
TrimRight(s) ==
  IF s # << >> /\ IsSpace(s[Len(s)]) THEN TrimRight(SubSeq(s, 1, Len(s) - 1)) ELSE s

\* s.trim()
Trim(s) == TrimRight(TrimLeft(s))

RECURSIVE SplitScan(_, _, _, _)
SplitScan(s, i, cur, out) ==
  IF i > Len(s) THEN Append(out, cur)
  ELSE IF s[i] = "," THEN SplitScan(s, i + 1, << >>, Append(out, cur))
  ELSE SplitScan(s, i + 1, Append(cur, s[i]), out)

\* s.split(","): the pieces between the commas, "" included
Split(s) == SplitScan(s, 1, << >>, << >>)

RECURSIVE Flatten(_)
\* the concatenation of a sequence of sequences
Flatten(ss) == IF ss = << >> THEN << >> ELSE Head(ss) \o Flatten(Tail(ss))

RECURSIVE Dedup(_)
\* [...new Set(xs)]: the first occurrence of each element, in order
Dedup(xs) ==
  IF xs = << >> THEN << >>
  ELSE LET front == Dedup(SubSeq(xs, 1, Len(xs) - 1))
           last == xs[Len(xs)]
       IN IF \E i \in 1..Len(front) : front[i] = last THEN front ELSE Append(front, last)

\* ------------------------------------------------------ POST /admin/import
\* The body is the sequence of its lines (csv.split(/\r?\n/)), a line the
\* sequence of its cells (line.split(",")).  A cell is [k, ...]: "empty" (""),
\* "blank" (white space only), "text" (v: a string), "chars" (v: characters),
\* "iso"/"garbage" (a date string) or "num" (v: a decimal number).  Header
\* cells are the column names after trim().toLowerCase().
EmptyCell == [k |-> "empty"]
BlankCell == [k |-> "blank"]
TextCell(v) == [k |-> "text", v |-> v]
CharsCell(v) == [k |-> "chars", v |-> v]
NumCell(v) == [k |-> "num", v |-> v]

\* lines.filter(Boolean): the empty line is the one that splits to [""]
NonEmptyLines(csv) == SelectSeq(csv, LAMBDA l : l # <<EmptyCell>>)

\* rec[h]: undefined when the header has no column h, else the cell under the
\* last column named h, trimmed; "" when the line has no such cell
Rec(header, parts, h) ==
  LET cols == {i \in 1..Len(header) : header[i] = h}
  IN IF cols = {} THEN None
     ELSE LET i == CHOOSE c \in cols : \A c2 \in cols : c2 <= c
          IN IF i > Len(parts) \/ parts[i].k \in {"empty", "blank"}
               THEN Some(EmptyCell)
             ELSE IF parts[i].k = "chars"
               THEN IF Trim(parts[i].v) = << >> THEN Some(EmptyCell)
                    ELSE Some(CharsCell(Trim(parts[i].v)))
             ELSE Some(parts[i])

CellFalsy(o) == o = None \/ o[1].k = "empty"

\* a cell as the string, characters, date string or number it holds
CellStr(o) == IF o = None THEN None ELSE Some(IF o[1].k = "text" THEN o[1].v ELSE "")
CellChars(o) == IF o = None THEN None ELSE Some(IF o[1].k = "chars" THEN o[1].v ELSE <<>>)
CellDateStr(o) ==
  IF CellFalsy(o) THEN None
  ELSE Some(IF o[1].k = "iso" THEN Iso(o[1].d, o[1].s) ELSE Garbage)
\* rec.lat ? parseFloat(rec.lat) : null
CellNum(o) == IF CellFalsy(o) THEN None ELSE Some(o[1].v)

\* (rec.recurrence || "none").toLowerCase()
LowerWord(w) ==
  IF w \in {"daily", "Daily", "DAILY"} THEN "daily"
  ELSE IF w \in {"weekly", "Weekly", "WEEKLY"} THEN "weekly"
  ELSE IF w \in {"none", "None", "NONE"} THEN "none"
  ELSE w

RowRecurrence(o) == LowerWord(IF CellFalsy(o) THEN "none" ELSE o[1].v)

\* the events one data line expands to, given its resolved coordinates
RowBase(header, parts) ==
  [name |-> CellStr(Rec(header, parts, "name")),
   type |-> CellChars(Rec(header, parts, "type")),
   address_name |-> OrNullStr(CellStr(Rec(header, parts, "address_name"))),
   description |-> OrNullStr(CellStr(Rec(header, parts, "description"))),
   address |-> OrNullStr(CellStr(Rec(header, parts, "address"))),
   start_time |-> CellDateStr(Rec(header, parts, "start_time")),
   end_time |-> CellDateStr(Rec(header, parts, "end_time"))]

RowInstances(header, parts) ==
  LET base == RowBase(header, parts)
  IN Expand(toTimestamp(base.start_time), toTimestamp(base.end_time),
            RowRecurrence(Rec(header, parts, "recurrence")),
            CellDateStr(Rec(header, parts, "recurrence_until")))

RowEvents(header, parts, geo) ==
  LET base == RowBase(header, parts)
      ev(inst) == [name |-> base.name, type |-> base.type,
                   description |-> base.description,
                   address_name |-> base.address_name,
                   address |-> base.address,
                   lat |-> geo.lat, lon |-> geo.lon,
                   start_time |-> inst.start,
                   end_time |-> inst.end]
  IN CHOOSE r \in {[i \in 1..Len(instances) |-> ev(instances[i])] :
                     instances \in {RowInstances(header, parts)}} : TRUE

RECURSIVE ImportRows(_, _, _, _, _, _)
\* for (const line of lines) { geocode; expand; insert each instance }
\* st: events, nextId, inserted, lookups, threw so far
ImportRows(header, lines, i, geoSeq, failAt, st) ==
  IF i > Len(lines) \/ st.threw THEN st
  ELSE
    LET parts == lines[i]
        base == RowBase(header, parts)
        geo == geocodeIfNeeded(base.address,
                               CellNum(Rec(header, parts, "lat")),
                               CellNum(Rec(header, parts, "lon")),
                               geoSeq[i])
        looked == st.lookups + (IF geo.looked THEN 1 ELSE 0)
    IN IF geo.threw
         THEN [st EXCEPT !.lookups = looked, !.threw = TRUE]
       ELSE
         LET after(ins) == [events |-> ins.events,
                            nextId |-> ins.nextId,
                            inserted |-> st.inserted + Len(ins.ids),
                            lookups |-> looked,
                            threw |-> ins.threw]
             rest == IF failAt > st.inserted THEN failAt - st.inserted ELSE 0
         IN CHOOSE r \in {ImportRows(header, lines, i + 1, geoSeq, failAt, nxt) :
                            nxt \in {after(insertEvents(st.events, st.nextId, evs, rest)) :
                                       evs \in {RowEvents(header, parts, geo)}}} : TRUE

ImportHandler(store, nid, secret, token, csv, geoSeq, failAt) ==
  LET auth == requireAdmin(token, secret)
      unchanged(r) ==
        [events |-> store, nextId |-> nid, resp |-> r, lookups |-> 0]
      lines == NonEmptyLines(csv)
  IN IF auth # 0 THEN unchanged(AuthError(auth))
     ELSE IF lines = << >> THEN unchanged([status |-> 400, error |-> "Empty CSV"])
     ELSE
       LET header == Head(lines)
           missing == {r \in {"name", "type", "start_time"} :
                         \A c \in 1..Len(header) : header[c] # r}
       IN IF missing # {}
            THEN unchanged([status |-> 400, error |-> "Missing column"])
          ELSE
            LET done(st) == [events |-> st.events,
                             nextId |-> st.nextId,
                             resp |-> IF st.threw THEN ServerError
                                      ELSE [status |-> 200, success |-> TRUE,
                                            inserted |-> st.inserted],
                             lookups |-> st.lookups]
            IN CHOOSE r \in {done(st) :
                  st \in {ImportRows(header, Tail(lines), 1, geoSeq, failAt,
                                     [events |-> store, nextId |-> nid, inserted |-> 0,
                                      lookups |-> 0, threw |-> FALSE])}} : TRUE

AdminImport(token, csv, geoSeq, failAt) ==
  \E out \in {ImportHandler(events, nextId, adminToken, token, csv, geoSeq, failAt)} :
     /\ events' = out.events
     /\ nextId' = out.nextId
     /\ resp' = out.resp
     /\ lookups' = out.lookups
     /\ req' = [route |-> "import", token |-> token, csv |-> csv,
                geo |-> geoSeq, failAt |-> failAt]
     /\ UNCHANGED adminToken

\* --------------------------------------------------- PUT /admin/events/:id
\* the update that writes location = NULL when no coordinates were resolved
UpdatedRowClearsLocation(row, body, geo) ==
  [row EXCEPT
     !.name = body.name,
     !.type = body.type,
     !.description = OrNullStr(body.description),
     !.address_name = OrNullStr(body.address_name),
     !.address = OrNullStr(body.address),
     !.start_time = ParseDate(body.start_time[1]),
     !.end_time = toTimestamp(body.end_time),
     !.location = IF geo.lat # None /\ geo.lon # None
                  THEN Some([lon |-> geo.lon[1], lat |-> geo.lat[1]])
                  ELSE None]

\* UPDATE events SET name, type, description, address_name, address,
\* start_time, end_time [, location] WHERE id = :id
UpdatedRow(row, body, geo) ==
  [row EXCEPT
     !.name = body.name,
     !.type = body.type,
     !.description = OrNullStr(body.description),
     !.address_name = OrNullStr(body.address_name),
     !.address = OrNullStr(body.address),
     !.start_time = ParseDate(body.start_time[1]),
     !.end_time = toTimestamp(body.end_time),
     !.location = IF geo.lat # None /\ geo.lon # None
                  THEN Some([lon |-> geo.lon[1], lat |-> geo.lat[1]])
                  ELSE row.location]

\* the timestamp columns reject a string that is not a date
UpdateRejects(body) ==
  \/ ~ParseDate(body.start_time[1]).valid
  \/ (~FalsyDateStr(body.end_time) /\ ~ParseDate(body.end_time[1]).valid)

\* failAt = 1: the storage collaborator fails the UPDATE
UpdateHandler(store, nid, secret, token, id, body, geoRes, failAt) ==
  LET auth == requireAdmin(token, secret)
      unchanged(r, looked) ==
        [events |-> store, nextId |-> nid, resp |-> r, lookups |-> looked]
  IN IF auth # 0 THEN unchanged(AuthError(auth), 0)
     ELSE IF MissingRequired(body)
       THEN unchanged(Required, 0)
     ELSE
       LET geo == geocodeIfNeeded(body.address, body.lat, body.lon, geoRes)
           n == IF geo.looked THEN 1 ELSE 0
       IN IF geo.threw \/ failAt = 1 \/ UpdateRejects(body)
            THEN unchanged(ServerError, n)
          ELSE [events |-> {IF e.id = id THEN UpdatedRow(e, body, geo) ELSE e : e \in store},
                nextId |-> nid,
                resp |-> [status |-> 200, success |-> TRUE],
                lookups |-> n]

AdminUpdate(token, id, body, geoRes, failAt) ==
  \E out \in {UpdateHandler(events, nextId, adminToken, token, id, body, geoRes, failAt)} :
     /\ events' = out.events
     /\ nextId' = out.nextId
     /\ resp' = out.resp
     /\ lookups' = out.lookups
     /\ req' = [route |-> "update", token |-> token, id |-> id, body |-> body,
                geo |-> geoRes, failAt |-> failAt]
     /\ UNCHANGED adminToken

\* ------------------------------------------------ DELETE /admin/events/:id
\* the deletion that answers 404 for an id that is not stored
DeleteHandlerNotFound(store, nid, secret, token, id, failAt) ==
  LET auth == requireAdmin(token, secret)
  IN IF auth # 0
       THEN [events |-> store, nextId |-> nid, resp |-> AuthError(auth), lookups |-> 0]
     ELSE IF failAt = 1
       THEN [events |-> store, nextId |-> nid, resp |-> ServerError, lookups |-> 0]
     ELSE IF \A e \in store : e.id # id
       THEN [events |-> store, nextId |-> nid, resp |-> NotFound, lookups |-> 0]
     ELSE [events |-> {e \in store : e.id # id},
           nextId |-> nid,
           resp |-> [status |-> 200, success |-> TRUE],
           lookups |-> 0]

DeleteHandler(store, nid, secret, token, id, failAt) ==
  LET auth == requireAdmin(token, secret)
  IN IF auth # 0
       THEN [events |-> store, nextId |-> nid, resp |-> AuthError(auth), lookups |-> 0]
     ELSE IF failAt = 1
       THEN [events |-> store, nextId |-> nid, resp |-> ServerError, lookups |-> 0]
     ELSE [events |-> {e \in store : e.id # id},
           nextId |-> nid,
           resp |-> [status |-> 200, success |-> TRUE],
           lookups |-> 0]

AdminDelete(token, id, failAt) ==
  \E out \in {DeleteHandler(events, nextId, adminToken, token, id, failAt)} :
     /\ events' = out.events
     /\ nextId' = out.nextId
     /\ resp' = out.resp
     /\ lookups' = out.lookups
     /\ req' = [route |-> "delete", token |-> token, id |-> id, failAt |-> failAt]
     /\ UNCHANGED adminToken

\* ---------------------------------------- POST /admin/events/:id/duplicate
\* failAt = 1: the SELECT fails; failAt = 2: the INSERT fails
DuplicateHandler(store, nid, secret, token, id, failAt) ==
  LET auth == requireAdmin(token, secret)
      unchanged(r) == [events |-> store, nextId |-> nid, resp |-> r, lookups |-> 0]
      rows == {e \in store : e.id = id}
  IN IF auth # 0 THEN unchanged(AuthError(auth))
     ELSE IF failAt = 1 THEN unchanged(ServerError)
     ELSE IF rows = {} THEN unchanged(NotFound)
     ELSE
       LET ev == Decode(CHOOSE e \in rows : TRUE)
           ins == insertEvents(store, nid, <<ev>>, IF failAt = 2 THEN 1 ELSE 0)
       IN [events |-> ins.events,
           nextId |-> ins.nextId,
           resp |-> IF ins.threw THEN ServerError
                    ELSE [status |-> 200, success |-> TRUE, id |-> ins.ids[1]],
           lookups |-> 0]

AdminDuplicate(token, id, failAt) ==
  \E out \in {DuplicateHandler(events, nextId, adminToken, token, id, failAt)} :
     /\ events' = out.events
     /\ nextId' = out.nextId
     /\ resp' = out.resp
     /\ lookups' = out.lookups
     /\ req' = [route |-> "duplicate", token |-> token, id |-> id, failAt |-> failAt]
     /\ UNCHANGED adminToken

\* ------------------------------------------------------------- GET /events
\* A query is [types, type, typesArr, date, timeOfDay, lat, lng, radius]:
\* types, type and typesArr ("types[]") are the sequences of values given for
\* the parameter (empty when absent); date is an option of a date string;
\* timeOfDay an option of text; lat, lng and radius options of
\* [k |-> "num", v], [k |-> "nan"] (text that is no number) or [k |-> "empty"].
Num(v) == [k |-> "num", v |-> v]
NotANumber == [k |-> "nan", v |-> 0]
EmptyParam == [k |-> "empty", v |-> 0]
FalsyParam(o) == o = None \/ o[1].k = "empty"

\* const raw = [].concat(types ?? []).concat(type ?? []).concat(types[] ?? [])
\* types = [...new Set(split, trim, filter(Boolean), toLowerCase)]
ParseTypes(q) ==
  LET raw == q.types \o q.type \o q.typesArr
      pieces == Flatten([i \in 1..Len(raw) |-> Split(raw[i])])
      trimmed == [i \in 1..Len(pieces) |-> Trim(pieces[i])]
      kept == SelectSeq(trimmed, LAMBDA t : t # << >>)
  IN Dedup([i \in 1..Len(kept) |-> Lower(kept[i])])

Morning == <<"m", "o", "r", "n", "i", "n", "g">>
Afternoon == <<"a", "f", "t", "e", "r", "n", "o", "o", "n">>
EveningWord == <<"e", "v", "e", "n", "i", "n", "g">>

\* boundsFor without the toLowerCase()
boundsForCaseSensitive(d, tod) ==
  LET t == IF FalsyChars(tod) THEN << >> ELSE tod[1]
  IN IF t = Morning THEN <<Date(d, HMS(5, 0, 0)), Date(d, HMS(11, 59, 59))>>
     ELSE IF t = Afternoon THEN <<Date(d, HMS(12, 0, 0)), Date(d, HMS(16, 59, 59))>>
     ELSE IF t = EveningWord THEN <<Date(d, HMS(17, 0, 0)), Date(d, HMS(23, 59, 59))>>
     ELSE <<Date(d, HMS(0, 0, 0)), Date(d, HMS(23, 59, 59))>>

\* boundsFor(d, tod): [`${d} ${startHH}`, `${d} ${endHH}`] as timestamps
boundsFor(d, tod) ==
  LET t == Lower(IF FalsyChars(tod) THEN << >> ELSE tod[1])
  IN IF t = Morning THEN <<Date(d, HMS(5, 0, 0)), Date(d, HMS(11, 59, 59))>>
     ELSE IF t = Afternoon THEN <<Date(d, HMS(12, 0, 0)), Date(d, HMS(16, 59, 59))>>
     ELSE IF t = EveningWord THEN <<Date(d, HMS(17, 0, 0)), Date(d, HMS(23, 59, 59))>>
     ELSE <<Date(d, HMS(0, 0, 0)), Date(d, HMS(23, 59, 59))>>

\* AND LOWER(type) = ANY($n::text[]), added when types.length
TypeMatches(row, types) ==
  types = << >> \/ (row.type # None /\ \E i \in 1..Len(types) : types[i] = Lower(row.type[1]))

\* AND start_time >= $a AND start_time <= $b when date, else start_time >= NOW()
TimeMatches(row, q, now) ==
  IF ~FalsyDateStr(q.date)
  THEN /\ DateLeq(boundsFor(q.date[1].d, q.timeOfDay)[1], row.start_time)
       /\ DateLeq(row.start_time, boundsFor(q.date[1].d, q.timeOfDay)[2])
  ELSE DateLeq(now, row.start_time)

\* if (lat && lng && radius)
RadiusGiven(q) == ~FalsyParam(q.lat) /\ ~FalsyParam(q.lng) /\ ~FalsyParam(q.radius)
\* parseFloat gave NaN for one of the three
RadiusNaN(q) == q.lat[1].k = "nan" \/ q.lng[1].k = "nan" \/ q.radius[1].k = "nan"

Abs(x) == IF x < 0 THEN -x ELSE x
\* The distance of the geography collaborator, in hundredths of a metre, on a
\* grid whose unit step is one mile; radius * 1609.34 in the same unit.
Distance(loc, lng, lat) == 160934 * (Abs(loc.lon - lng) + Abs(loc.lat - lat))
RadiusMetres(radius) == radius * 160934

\* AND location IS NOT NULL AND ST_DWithin(location, point, metres); nan is
\* what the collaborator does with a NaN argument: "none" or "all" rows pass
RadiusMatches(row, q, nan) ==
  \/ ~RadiusGiven(q)
  \/ /\ row.location # None
     /\ IF RadiusNaN(q) THEN nan = "all"
        ELSE Distance(row.location[1], q.lng[1].v, q.lat[1].v) <= RadiusMetres(q.radius[1].v)

RECURSIVE Ordered(_, _, _)
\* The orders in which the rows of S can come back under ORDER BY start_time
\* (descending when desc), cut to limit rows: the rows with the first
\* start_time in any order, then the others.
Ordered(S, desc, limit) ==
  IF S = {} \/ limit = 0 THEN {<< >>}
  ELSE
    LET first == {e \in S : \A x \in S :
                    IF desc THEN DateLeq(x.start_time, e.start_time)
                    ELSE DateLeq(e.start_time, x.start_time)}
    IN UNION {{<<e>> \o q : q \in Ordered(S \ {e}, desc, limit - 1)} : e \in first}

\* failAt = 1: the storage collaborator fails the SELECT
EventsHandler(store, q, now, rows, nan, failAt) ==
  IF failAt = 1 THEN ServerError
  ELSE IF ~FalsyDateStr(q.date) /\ q.date[1].k # "iso" THEN ServerError
  ELSE IF RadiusGiven(q) /\ RadiusNaN(q) /\ nan = "error" THEN ServerError
  ELSE [status |-> 200, rows |-> [i \in 1..Len(rows) |-> Decode(rows[i])]]

\* the rows the WHERE clause of the query selects
Selected(store, q, now, nan) ==
  UNION {{e \in store : /\ TypeMatches(e, types)
                        /\ TimeMatches(e, q, now)
                        /\ RadiusMatches(e, q, nan)} : types \in {ParseTypes(q)}}

GetEvents(q, now, nan, failAt) ==
  \E rows \in Ordered(Selected(events, q, now, nan), FALSE, PublicLimit) :
    /\ resp' = EventsHandler(events, q, now, rows, nan, failAt)
    /\ req' = [route |-> "events", q |-> q, now |-> now, nan |-> nan, failAt |-> failAt]
    /\ lookups' = 0
    /\ UNCHANGED <<events, nextId, adminToken>>

\* ------------------------------------------------------- GET /admin/events
\* rows is the order the storage collaborator returns the rows in
ListHandler(store, nid, secret, token, rows, failAt) ==
  LET auth == requireAdmin(token, secret)
  IN [events |-> store, nextId |-> nid, lookups |-> 0,
      resp |-> IF auth # 0 THEN AuthError(auth)
               ELSE IF failAt = 1 THEN ServerError
               ELSE [status |-> 200, rows |-> [i \in 1..Len(rows) |-> Decode(rows[i])]]]

AdminList(token, failAt) ==
  \E rows \in Ordered(events, TRUE, AdminLimit) :
    \E out \in {ListHandler(events, nextId, adminToken, token, rows, failAt)} :
       /\ events' = out.events
       /\ nextId' = out.nextId
       /\ resp' = out.resp
       /\ lookups' = out.lookups
       /\ req' = [route |-> "list", token |-> token, failAt |-> failAt]
       /\ UNCHANGED adminToken

\* ------------------------------------------------------------ environment
Secret == "s3cret"
NoRequest == [route |-> "none"]
NoResponse == [status |-> 0]

\* the state after start-up: an empty table, no request handled yet
InitWith(secrets) ==
  /\ events = {}
  /\ nextId = 1
  /\ adminToken \in secrets
  /\ req = NoRequest
  /\ resp = NoResponse
  /\ lookups = 0

\* ------------------------------------------- recurrence runs (SpecRecur)
\* One creation or import request against the empty table, its start, end,
\* recurrence and until drawn from the sets below.
Evening == HMS(18, 0, 0)
RecurStarts == {Iso(1, 0), Iso(1, Evening)}
RecurUntils ==
  {None, Some(Garbage)}
    \cup {Some(Iso(d, 0)) : d \in (0..MinSpan) \cup ((MaxSpan - 4)..MaxSpan)}
RecurModes == {None, Some("daily"), Some("weekly"), Some("monthly")}
RecurEnds(st) == {None, Some(Iso(st.d + 1, 0))}

RecurBody(st, en, mode, until) ==
  [name |-> Some("Quiz"), type |-> Some(<<"t">>),
   description |-> None, address_name |-> None, address |-> None,
   lat |-> None, lon |-> None,
   start_time |-> Some(st), end_time |-> en,
   recurrence |-> mode, recurrence_until |-> until]

CsvHeader ==
  <<"name", "type", "address_name", "description", "address", "start_time",
    "end_time", "recurrence", "recurrence_until", "lat", "lon">>

CsvLine(name, st, en, mode, until) ==
  <<TextCell(name), CharsCell(<<"t">>), EmptyCell, EmptyCell, EmptyCell,
    st, en, mode, until, EmptyCell, EmptyCell>>

RecurCsvLines ==
  {CsvLine("Quiz", Iso(1, 0), en, mode, until) :
     en \in {EmptyCell, Iso(2, 0)},
     mode \in {EmptyCell, TextCell("Daily"), TextCell("weekly")},
     until \in {EmptyCell, Iso(0, 0), Iso(MaxSpan, 0)}}

RECURSIVE SeqsUpTo(_, _)
\* the sequences over S of length 0..n
SeqsUpTo(S, n) ==
  IF n = 0 THEN {<< >>}
  ELSE LET shorter == SeqsUpTo(S, n - 1)
       IN shorter \cup {Append(q, x) : q \in {r \in shorter : Len(r) = n - 1}, x \in S}

RecurCreate ==
  /\ events = {}
  /\ \E st \in RecurStarts, mode \in RecurModes, until \in RecurUntils :
       \E en \in RecurEnds(st) :
         AdminCreate(Some(Secret), RecurBody(st, en, mode, until), GeoEmpty, 0)

RecurImport ==
  /\ events = {}
  /\ \E rows \in SeqsUpTo(RecurCsvLines, MaxCsvRows) :
       AdminImport(Some(Secret), <<CsvHeader>> \o rows,
                   [i \in 1..Len(rows) |-> GeoEmpty], 0)

InitRecur == InitWith({Some(Secret)})

NextRecur == RecurCreate \/ RecurImport

SpecRecur == InitRecur /\ [][NextRecur]_vars

\* ------------------------------------------ failing inserts (SpecPartial)
\* Creation and import requests of a few instances each, in which the storage
\* collaborator may fail any one insert, sent while the table holds at most
\* MaxPartialRows rows.
MaxFailAt == 4
MaxPartialSpan == 3
MaxPartialRows == 1

PartialBodies ==
  {RecurBody(Iso(1, 0), en, mode, Some(Iso(1 + d, 0))) :
     en \in {None, Some(Garbage)},
     mode \in {None, Some("daily"), Some("weekly")},
     d \in {1, MaxPartialSpan, 15}}

PartialLines(name) ==
  {CsvLine(name, Iso(1, 0), EmptyCell, mode, Iso(1 + d, 0)) :
     mode \in {EmptyCell, TextCell("Daily")}, d \in {MaxPartialSpan - 1}}

PartialCsvs ==
  {<<CsvHeader, a>> : a \in PartialLines("r1")}
    \cup {<<CsvHeader, a, b>> : a \in PartialLines("r1"), b \in PartialLines("r2")}

PartialRoom == Cardinality(events) <= MaxPartialRows

PartialCreate ==
  /\ PartialRoom
  /\ \E body \in PartialBodies, failAt \in 0..MaxFailAt :
       AdminCreate(Some(Secret), body, GeoEmpty, failAt)

PartialImport ==
  /\ PartialRoom
  /\ \E csv \in PartialCsvs, failAt \in 0..MaxFailAt :
       AdminImport(Some(Secret), csv, [i \in 1..Len(csv) |-> GeoEmpty], failAt)

InitPartial == InitWith({Some(Secret)})

NextPartial == PartialCreate \/ PartialImport

SpecPartial == InitPartial /\ [][NextPartial]_vars

\* ---------------------------------------------- public queries (SpecQuery)
\* The table is seeded by one import, one more event may be created, and any
\* of the queries below is asked of each table.  The seeded events lie on and
\* around the edges of the time-of-day windows of day 1, differ in the case
\* and spacing of their type, and some have no location.  A query leaves the
\* table as it is, so the state after two queries in a row is the state
\* after the second alone: queries are explored after a write only.
MaxStrLen == 3

SeedHeader == <<"name", "type", "start_time", "lat", "lon">>
SeedLine(name, type, d, s, lat, lon) ==
  <<TextCell(name), CharsCell(type), Iso(d, s), lat, lon>>

SeedCsv ==
  <<SeedHeader,
    SeedLine("e01", <<"a">>, 0, HMS(23, 59, 59), EmptyCell, EmptyCell),
    SeedLine("e02", <<"a">>, 1, HMS(0, 0, 0), NumCell(0), NumCell(0)),
    SeedLine("e03", <<"a">>, 1, HMS(4, 59, 59), NumCell(0), NumCell(1)),
    SeedLine("e04", <<"a">>, 1, HMS(5, 0, 0), EmptyCell, EmptyCell),
    SeedLine("e05", <<"A", " ", "a">>, 1, HMS(8, 0, 0), NumCell(0), NumCell(0)),
    SeedLine("e06", <<"a">>, 1, HMS(11, 59, 59), NumCell(2), NumCell(0)),
    SeedLine("e07", <<"a">>, 1, HMS(12, 0, 0), NumCell(0), NumCell(0)),
    SeedLine("e08", <<"A", "A">>, 1, HMS(12, 0, 0), EmptyCell, EmptyCell),
    SeedLine("e09", <<" ", "A", " ">>, 1, HMS(13, 0, 0), NumCell(0), NumCell(3)),
    SeedLine("e10", <<"a">>, 1, HMS(16, 59, 59), NumCell(0), NumCell(0)),
    SeedLine("e11", <<"a">>, 1, HMS(17, 0, 0), NumCell(1), NumCell(1)),
    SeedLine("e12", << >>, 1, HMS(18, 0, 0), NumCell(0), NumCell(0)),
    SeedLine("e13", <<"a">>, 1, HMS(23, 59, 59), NumCell(0), NumCell(0)),
    SeedLine("e14", <<"a">>, 2, HMS(0, 0, 0), NumCell(0), NumCell(0))>>

\* an event whose type holds a comma, which no import line can carry
LateBody ==
  [name |-> Some("Late"), type |-> Some(<<"a", ",", "A">>),
   description |-> None, address_name |-> None, address |-> None,
   lat |-> Some(0), lon |-> Some(0),
   start_time |-> Some(Iso(1, HMS(20, 0, 0))), end_time |-> None,
   recurrence |-> None, recurrence_until |-> None]

TypeAlphabet == {"a", "A", " ", ","}
Strs(n) == UNION {[1..k -> TypeAlphabet] : k \in 0..n}

NoQuery ==
  [types |-> << >>, type |-> << >>, typesArr |-> << >>,
   date |-> None, timeOfDay |-> None,
   lat |-> None, lng |-> None, radius |-> None]

\* type=... and types[]=... given next to types=...
TypeExtras ==
  { [type |-> << >>, typesArr |-> << >>],
    [type |-> << <<"A", ",", "a", " ", "A">> >>, typesArr |-> << >>],
    [type |-> << <<" ", "a">> >>, typesArr |-> << <<"A", "A", " ">>, <<",", ",">> >>] }

TypeQueries ==
  {[NoQuery EXCEPT !.types = t, !.type = x.type, !.typesArr = x.typesArr] :
     t \in {<< >>} \cup {<<str>> : str \in Strs(MaxStrLen)}, x \in TypeExtras}

Words ==
  { None, Some(<< >>), Some(Morning), Some(<<"M", "O", "R", "N", "I", "N", "G">>),
    Some(Afternoon), Some(<<"E", "v", "e", "n", "i", "n", "g">>),
    Some(<<"n", "i", "g", "h", "t">>) }

TimeQueries ==
  {[NoQuery EXCEPT !.types = t, !.date = d, !.timeOfDay = w] :
     t \in {<< >>, << <<"a">> >>},
     d \in {None, Some(EmptyDateStr), Some(Garbage), Some(Iso(1, 0)), Some(Iso(2, 0))},
     w \in Words}

Coordinates == {None, Some(EmptyParam), Some(NotANumber), Some(Num(0))}
Radii == {None, Some(NotANumber), Some(Num(0)), Some(Num(1)), Some(Num(2))}

RadiusQueries ==
  {[NoQuery EXCEPT !.lat = la, !.lng = ln, !.radius = r] :
     la \in Coordinates, ln \in Coordinates, r \in Radii}

Nows == {Date(0, 0), Date(1, HMS(12, 0, 0)), Date(3, 0)}

QuerySeed ==
  /\ events = {}
  /\ AdminImport(Some(Secret), SeedCsv, [i \in 1..Len(SeedCsv) |-> GeoEmpty], 0)

QueryCreate ==
  /\ \A e \in events : e.name # LateBody.name
  /\ AdminCreate(Some(Secret), LateBody, GeoEmpty, 0)

AfterWrite == req.route # "events"

QueryTypes ==
  AfterWrite /\ \E q \in TypeQueries : GetEvents(q, Date(0, 0), "none", 0)

QueryTimes ==
  AfterWrite /\ \E q \in TimeQueries, now \in Nows : GetEvents(q, now, "none", 0)

QueryRadius ==
  /\ AfterWrite
  /\ \E q \in RadiusQueries, nan \in {"error", "none", "all"}, failAt \in 0..1 :
       GetEvents(q, Date(0, 0), nan, failAt)

InitQuery == InitWith({Some(Secret)})

NextQuery == QuerySeed \/ QueryCreate \/ QueryTypes \/ QueryTimes \/ QueryRadius

SpecQuery == InitQuery /\ [][NextQuery]_vars

\* ------------------------------------------------- admin requests (Spec)
\* Any sequence of admin requests, with the bodies, tokens, ids, lookup
\* answers and storage failures below, while the table holds at most MaxRows
\* rows.
BaseBody ==
  [name |-> Some("Quiz"), type |-> Some(<<"t">>),
   description |-> None, address_name |-> Some(""), address |-> Some("1 Main St"),
   lat |-> None, lon |-> None,
   start_time |-> Some(Iso(1, 0)), end_time |-> None,
   recurrence |-> None, recurrence_until |-> None]

AltBody ==
  [name |-> Some("Jazz"), type |-> Some(<<"K">>),
   description |-> Some("live"), address_name |-> Some("Bar"), address |-> None,
   lat |-> Some(35), lon |-> Some(-80),
   start_time |-> Some(Iso(2, Evening)), end_time |-> Some(Iso(2, Evening + 1)),
   recurrence |-> None, recurrence_until |-> None]

\* BaseBody with one required field missing or empty
InvalidBodies ==
  {[BaseBody EXCEPT !.name = v] : v \in {None, Some("")}}
    \cup {[BaseBody EXCEPT !.type = v] : v \in {None, Some(<< >>)}}
    \cup {[BaseBody EXCEPT !.start_time = v] : v \in {None, Some(EmptyDateStr)}}

LatOnlyBody == [BaseBody EXCEPT !.lat = Some(35)]
GarbageBody == [BaseBody EXCEPT !.start_time = Some(Garbage)]

Hit == GeoHit(36, -81)
Tokens == {None, Some(Secret), Some("wrong")}
Ids == 1..(MaxRows + 1)

\* (body, lookup answer) pairs of authorized requests
BodyGeo ==
  ({BaseBody, LatOnlyBody} \X {Hit, GeoEmpty, GeoFail})
    \cup ((InvalidBodies \cup {AltBody, GarbageBody}) \X {Hit})

\* [token, body, geo, failAt] of creation and update requests
WriteReqs ==
  {[token |-> Some(Secret), body |-> bg[1], geo |-> bg[2], failAt |-> 0] : bg \in BodyGeo}
    \cup {[token |-> t, body |-> b, geo |-> Hit, failAt |-> 0] :
            t \in Tokens, b \in {BaseBody, [BaseBody EXCEPT !.name = None]}}
    \cup {[token |-> Some(Secret), body |-> BaseBody, geo |-> Hit, failAt |-> 1]}

SmallCsvs ==
  { << >>,
    <<CsvHeader, CsvLine("Jazz", Iso(2, Evening), EmptyCell, EmptyCell, EmptyCell)>>,
    << <<"name", "type">>, <<TextCell("Jazz"), CharsCell(<<"K">>)>> >> }

InBounds == Cardinality(events') <= MaxRows /\ nextId' <= MaxRows + 2

Create ==
  \E r \in WriteReqs : AdminCreate(r.token, r.body, r.geo, r.failAt) /\ InBounds

Update ==
  \E r \in WriteReqs, id \in Ids : AdminUpdate(r.token, id, r.body, r.geo, r.failAt)

Delete ==
  \E t \in Tokens, id \in Ids, f \in {0, 1} : AdminDelete(t, id, f)

Duplicate ==
  \E t \in Tokens, id \in Ids, f \in 0..2 : AdminDuplicate(t, id, f) /\ InBounds

List ==
  \E t \in Tokens, f \in {0, 1} : AdminList(t, f)

Import ==
  \E t \in Tokens, csv \in SmallCsvs :
    AdminImport(t, csv, [i \in 1..Len(csv) |-> GeoEmpty], 0) /\ InBounds

Init == InitWith({None, Some(""), Some(Secret)})

Next == Create \/ Update \/ Delete \/ Duplicate \/ List \/ Import

Spec == Init /\ [][Next]_vars

\* ------------------------------------------------ locations (SpecLocation)
\* Every admin request and both reads, with latitude, longitude and address
\* each given or not and the lookup answering or not, while the table holds
\* at most MaxLocRows rows.
MaxLocRows == 2

Given == {None, Some(35)}
Addresses == {None, Some("1 Main St")}

LocBodies ==
  {[BaseBody EXCEPT !.lat = la, !.lon = lo, !.address = ad] :
     la \in Given, lo \in Given, ad \in Addresses}

LocCsvs ==
  {<< <<"name", "type", "start_time", "address", "lat", "lon">>,
      <<TextCell("Quiz"), CharsCell(<<"t">>), Iso(1, 0), ad, la, lo>> >> :
     ad \in {EmptyCell, TextCell("1 Main St")},
     la \in {EmptyCell, NumCell(35)}, lo \in {EmptyCell, NumCell(35)}}

LocIds == 1..MaxLocRows
LocRoom == Cardinality(events') <= MaxLocRows /\ nextId' <= MaxLocRows + 1

\* the lookup answers that make a difference: none without an address
LocAnswers(given) == IF given THEN {Hit, GeoEmpty} ELSE {GeoEmpty}

LocCreate ==
  \E body \in LocBodies : \E geo \in LocAnswers(body.address # None) :
    AdminCreate(Some(Secret), body, geo, 0) /\ LocRoom

LocUpdate ==
  \E body \in LocBodies, id \in LocIds : \E geo \in LocAnswers(body.address # None) :
    AdminUpdate(Some(Secret), id, body, geo, 0)

LocDuplicate == \E id \in LocIds : AdminDuplicate(Some(Secret), id, 0) /\ LocRoom

LocDelete == \E id \in LocIds : AdminDelete(Some(Secret), id, 0)

LocImport ==
  \E csv \in LocCsvs : \E geo \in LocAnswers(csv[2][4].k = "text") :
    AdminImport(Some(Secret), csv, [i \in 1..Len(csv) |-> geo], 0) /\ LocRoom

LocList == AdminList(Some(Secret), 0)

LocQuery ==
  \E q \in {NoQuery, [NoQuery EXCEPT !.lat = Some(Num(35)), !.lng = Some(Num(-80)),
                                     !.radius = Some(Num(1))]} :
    GetEvents(q, Date(0, 0), "none", 0)

InitLocation == InitWith({Some(Secret)})

NextLocation ==
  LocCreate \/ LocUpdate \/ LocDuplicate \/ LocDelete \/ LocImport \/ LocList \/ LocQuery

SpecLocation == InitLocation /\ [][NextLocation]_vars

\* --------------------------------------------- required fields (SpecFields)
\* Authorized creations, updates, duplications, deletions and imports whose
\* name, type and start_time are each given, empty or missing, while the
\* table holds at most MaxFieldRows rows.  Every start_time given is of day 1.
MaxFieldRows == 2

FieldBodies == {BaseBody, AltBody} \cup InvalidBodies

FieldLines ==
  {<<n, t, st>> : n \in {EmptyCell, BlankCell, TextCell("Quiz")},
                  t \in {EmptyCell, CharsCell(<<" ">>), CharsCell(<<"t">>)},
                  st \in {EmptyCell, BlankCell, Iso(1, 0)}}
    \cup {<<TextCell("Quiz")>>, <<TextCell("Quiz"), CharsCell(<<"t">>)>>}

FieldCsvs == {<< <<"name", "type", "start_time">>, line >> : line \in FieldLines}

FieldIds == 1..MaxFieldRows
FieldRoom == Cardinality(events') <= MaxFieldRows /\ nextId' <= MaxFieldRows + 1

FieldCreate ==
  \E body \in FieldBodies : AdminCreate(Some(Secret), body, GeoEmpty, 0) /\ FieldRoom

FieldUpdate ==
  \E body \in FieldBodies, id \in FieldIds :
    AdminUpdate(Some(Secret), id, body, GeoEmpty, 0)

FieldDuplicate == \E id \in FieldIds : AdminDuplicate(Some(Secret), id, 0) /\ FieldRoom

FieldDelete == \E id \in FieldIds : AdminDelete(Some(Secret), id, 0)

FieldImport ==
  \E csv \in FieldCsvs :
    AdminImport(Some(Secret), csv, [i \in 1..Len(csv) |-> GeoEmpty], 0) /\ FieldRoom

InitFields == InitWith({Some(Secret)})

NextFields == FieldCreate \/ FieldUpdate \/ FieldDuplicate \/ FieldDelete \/ FieldImport

SpecFields == InitFields /\ [][NextFields]_vars

\* ------------------------------------------------- claims on the expansion
Created == req.route = "create" /\ resp.status = 200
Imported == req.route = "import" /\ resp.status = 200
DataLines == Tail(NonEmptyLines(req.csv))

\* C1 (as stated): the expansion of a creation request, and of each row of an
\* import, has at most 200 instances, so that a creation persists at most
\* 200 rows and an import at most 200 rows per data line.
C1_AtMost200 ==
  /\ Created =>
       /\ Len(CreateInstances(req.body)) <= 200
       /\ resp.inserted <= 200
       /\ Cardinality(events) <= 200
  /\ Imported =>
       /\ \A i \in 1..Len(DataLines) :
            Len(RowInstances(Head(NonEmptyLines(req.csv)), DataLines[i])) <= 200
       /\ resp.inserted <= 200 * Len(DataLines)

\* C2 (as stated): a creation request that passes validation and whose
\* inserts all succeed persists at least one row; inserted is never 0.
C2_AtLeastOne == Created => (resp.inserted >= 1 /\ events # {})

\* the until bound of the creation request in req, as the day and second it
\* denotes: recurrence_until when given, else start + 30 days / + 8 weeks
ReqStart == req.body.start_time[1]
ReqStep == IF req.body.recurrence = Some("daily") THEN 1 ELSE 7
ReqStepped == req.body.recurrence \in {Some("daily"), Some("weekly")}
ReqUntilGiven == req.body.recurrence_until # None
ReqUntil ==
  IF ReqUntilGiven THEN req.body.recurrence_until[1]
  ELSE IF req.body.recurrence = Some("daily") THEN Iso(ReqStart.d + 30, ReqStart.s)
  ELSE Iso(ReqStart.d + 56, ReqStart.s)
\* start + k * step <= until
Qualifies(k) ==
  /\ ReqUntil.k = "iso"
  /\ \/ ReqStart.d + k * ReqStep < ReqUntil.d
     \/ (ReqStart.d + k * ReqStep = ReqUntil.d /\ ReqStart.s <= ReqUntil.s)

\* C2 (amended): such a request persists no row exactly when recurrence is
\* daily or weekly and the until bound is not a date at or after start_time;
\* in every other case it persists at least one row.
C2_ZeroOnlyWhenUntilBeforeStart ==
  Created =>
    /\ resp.inserted = Cardinality(events)
    /\ (resp.inserted = 0) <=> (ReqStepped /\ ~Qualifies(0))

\* C2 witness: a daily creation whose recurrence_until is the start day itself
\* has persisted exactly one row.
C2_Witness ==
  /\ Created
  /\ req.body.recurrence = Some("daily")
  /\ req.body.recurrence_until = Some(Iso(ReqStart.d, ReqStart.s))
  /\ resp.inserted = 1

\* C3: for daily or weekly recurrence with fewer than 200 qualifying dates,
\* the rows persisted are exactly (start + k*step, end + k*step) for the
\* k >= 0 with start + k*step <= until, inserted in ascending order of k;
\* daily day 1 to day 3 gives 3 rows, daily without until 31, weekly 9.
ReqQualifying == {k \in 0..(MaxSpan + 60) : Qualifies(k)}
ReqEnd(k) ==
  IF FalsyDateStr(req.body.end_time) THEN None
  ELSE Some(Date(req.body.end_time[1].d + k * ReqStep, req.body.end_time[1].s))
C3_ExactExpansion ==
  (Created /\ ReqStepped /\ ReqUntil.k = "iso" /\ Cardinality(ReqQualifying) < 200) =>
    /\ resp.inserted = Cardinality(ReqQualifying)
    /\ \A k \in ReqQualifying :
         \E e \in events :
           /\ e.id = resp.ids[k + 1]
           /\ e.start_time = Date(ReqStart.d + k * ReqStep, ReqStart.s)
           /\ e.end_time = ReqEnd(k)
    /\ Cardinality(events) = resp.inserted
    /\ \A i, j \in 1..Len(resp.ids) : i < j => resp.ids[i] < resp.ids[j]
    /\ (req.body.recurrence = Some("daily") /\ ~ReqUntilGiven) => resp.inserted = 31
    /\ (req.body.recurrence = Some("weekly") /\ ~ReqUntilGiven) => resp.inserted = 9
    /\ (req.body.recurrence = Some("daily") /\ ReqStart = Iso(1, 0)
          /\ req.body.recurrence_until = Some(Iso(3, 0))) => resp.inserted = 3

\* C3 witness: a weekly creation with an end time and no recurrence_until has
\* persisted its nine instances.
C3_Witness ==
  /\ Created
  /\ req.body.recurrence = Some("weekly")
  /\ ~ReqUntilGiven
  /\ req.body.end_time # None
  /\ Cardinality(events) = 9

\* ---------------------------------------------- claims on the admin routes
\* the secret is configured / the request carries it
Configured == adminToken # None /\ adminToken # Some("")
Authorized(r) == Configured /\ r.token = adminToken
AdminRoutes == {"list", "create", "update", "delete", "duplicate", "import"}
IdsOf(S) == {e.id : e \in S}
\* name, type or start_time missing or empty
Incomplete(body) ==
  \/ body.name \in {None, Some("")}
  \/ body.type \in {None, Some(<< >>)}
  \/ body.start_time \in {None, Some(EmptyDateStr)}

\* C4: a creation or update request that passes the admin check and whose
\* name, type or start_time is missing or empty is answered 400, issues no
\* geocoding lookup and leaves the table unchanged.
C4_InvalidRejected ==
  [][(req'.route \in {"create", "update"} /\ Authorized(req') /\ Incomplete(req'.body)) =>
       /\ resp' = [status |-> 400, error |-> "name, type, start_time are required"]
       /\ lookups' = 0
       /\ events' = events
       /\ nextId' = nextId]_vars

\* C4 witness: an update with an empty type, aimed at a stored event that has
\* an address, has been answered 400.
C4_Witness ==
  /\ req.route = "update"
  /\ Authorized(req)
  /\ req.body.type = Some(<< >>)
  /\ req.body.address # None
  /\ req.id \in IdsOf(events)
  /\ resp.status = 400

\* C5: an admin request changes the table or returns event data only if its
\* token equals the configured secret; with no secret configured it is
\* answered 500, with a missing or different token 401, the table unchanged.
C5_AdminOnly ==
  [][(req'.route \in AdminRoutes) =>
       /\ ~Configured =>
            /\ resp' = [status |-> 500, error |-> "ADMIN_TOKEN not set on server"]
            /\ events' = events
       /\ (Configured /\ req'.token # adminToken) =>
            /\ resp' = [status |-> 401, error |-> "Unauthorized"]
            /\ events' = events
       /\ (events' # events \/ resp'.status = 200) => Authorized(req')]_vars

\* C5 witness: a deletion aimed at a stored event with a wrong token has been
\* answered 401, and the event is still there.
C5_Witness ==
  /\ req.route = "delete"
  /\ Configured
  /\ req.token = Some("wrong")
  /\ req.id \in IdsOf(events)
  /\ resp.status = 401

\* C6: an update answered {success: true} sets the location of the event with
\* that id to the resolved (lon, lat) when the resolver yields both, leaves
\* its stored location as it was otherwise, and changes no other event; an
\* authorized valid update whose lookup and storage call succeed is so answered.
Resolved(r) == geocodeIfNeeded(r.body.address, r.body.lat, r.body.lon, r.geo)
C6_UpdateLocation ==
  [][(req'.route = "update") =>
       /\ (resp'.status = 200) =>
            /\ resp' = [status |-> 200, success |-> TRUE]
            /\ IdsOf(events') = IdsOf(events)
            /\ \A e \in events : e.id # req'.id => e \in events'
            /\ \A e \in events : e.id = req'.id =>
                 \E u \in events' :
                   /\ u.id = e.id
                   /\ u.name = req'.body.name
                   /\ u.location =
                        IF Resolved(req').lat # None /\ Resolved(req').lon # None
                        THEN Some([lon |-> Resolved(req').lon[1],
                                   lat |-> Resolved(req').lat[1]])
                        ELSE e.location
       /\ (/\ Authorized(req')
           /\ ~Incomplete(req'.body)
           /\ ~Resolved(req').threw
           /\ req'.failAt = 0
           /\ req'.body.start_time[1].k = "iso"
           /\ req'.body.end_time \in {None, Some(EmptyDateStr)}
                \/ req'.body.end_time[1].k = "iso") => resp'.status = 200]_vars

\* C6 witness: an update whose lookup found nothing has succeeded on an event
\* that still has its location.
C6_Witness ==
  /\ req.route = "update"
  /\ resp.status = 200
  /\ Resolved(req).looked
  /\ Resolved(req).lat = None
  /\ \E e \in events : e.id = req.id /\ e.location # None /\ e.name = req.body.name

\* C7: an authorized deletion that the storage collaborator carries out is
\* answered {success: true} whether or not the id exists, removes exactly the
\* event with that id, and repeating it changes nothing more.
C7_DeleteIdempotent ==
  [][(req'.route = "delete" /\ Authorized(req') /\ req'.failAt = 0) =>
       /\ resp' = [status |-> 200, success |-> TRUE]
       /\ events' = {e \in events : e.id # req'.id}
       /\ (req = req' /\ resp.status = 200) => events' = events]_vars

\* C7 witness: a deletion has been answered success, its id (assigned
\* earlier) is not in the table, and another event is.
C7_Witness ==
  /\ req.route = "delete"
  /\ resp.status = 200
  /\ req.id < nextId
  /\ req.id \notin IdsOf(events)
  /\ events # {}

\* C8: an authorized duplication that the storage collaborator carries out
\* adds, for an existing id, exactly one event with a fresh id and the
\* source's name, type, description, address_name, address, location,
\* start_time and end_time, issues no lookup and leaves the source as it is;
\* for an id that does not exist it answers 404 and inserts nothing.
C8_Duplicate ==
  [][(req'.route = "duplicate" /\ Authorized(req') /\ req'.failAt = 0) =>
       /\ lookups' = 0
       /\ (req'.id \notin IdsOf(events)) =>
            /\ resp' = [status |-> 404, error |-> "Not found"]
            /\ events' = events
       /\ \A e \in events : e.id = req'.id =>
            /\ resp'.status = 200
            /\ resp'.id \notin IdsOf(events)
            /\ resp'.id >= nextId
            /\ events' = events \cup {[e EXCEPT !.id = resp'.id]}]_vars

\* C8 witness: a duplication has succeeded and the table holds the source and
\* its copy, both with the same location.
C8_Witness ==
  /\ req.route = "duplicate"
  /\ resp.status = 200
  /\ \E e, c \in events :
       /\ e.id = req.id
       /\ c.id = resp.id
       /\ c.id # e.id
       /\ c.location # None
       /\ c = [e EXCEPT !.id = c.id]


\* --------------------------------------------- claims on the public query
Answered == req.route = "events" /\ resp.status = 200
Returned(e) == \E i \in 1..Len(resp.rows) : resp.rows[i].id = e.id
ReturnedNames == {resp.rows[i].name[1] : i \in 1..Len(resp.rows)}

\* the pieces of s between its commas that are not empty
Pieces(s) ==
  {SubSeq(s, p[1], p[2]) :
     p \in {x \in (1..Len(s)) \X (1..Len(s)) :
              /\ x[1] <= x[2]
              /\ \A k \in x[1]..x[2] : s[k] # ","
              /\ (x[1] = 1 \/ s[x[1] - 1] = ",")
              /\ (x[2] = Len(s) \/ s[x[2] + 1] = ",")}}

\* p without the spaces around it, if anything is left
Stripped(p) ==
  {SubSeq(p, x[1], x[2]) :
     x \in {y \in (1..Len(p)) \X (1..Len(p)) :
              /\ y[1] <= y[2]
              /\ p[y[1]] # " " /\ p[y[2]] # " "
              /\ \A k \in 1..Len(p) : (k < y[1] \/ k > y[2]) => p[k] = " "}}

SameLetter(c, d) ==
  c = d \/ \E i \in 1..Len(Uppers) : {c, d} = {Uppers[i], Lowers[i]}
\* x and y are the same text up to the case of the letters
SameText(x, y) == Len(x) = Len(y) /\ \A i \in 1..Len(x) : SameLetter(x[i], y[i])

\* every type asked for, in any of the three parameters
Requested(q) ==
  LET values == {q.types[i] : i \in 1..Len(q.types)}
                  \cup {q.type[i] : i \in 1..Len(q.type)}
                  \cup {q.typesArr[i] : i \in 1..Len(q.typesArr)}
  IN UNION {UNION {Stripped(p) : p \in Pieces(v)} : v \in values}

TypeAsked(e, q) ==
  Requested(q) = {} \/ \E t \in Requested(q) : SameText(t, e.type[1])

\* C9: in an answered query, an event of the table is returned only if its
\* type is, up to case, one of the non-empty comma-separated, trimmed values
\* of types, type and types[] taken together, or no such value was given;
\* and it is returned if so whenever the time and radius predicates let it
\* through and the table is within the row limit.
C9_TypeFilter ==
  Answered =>
    \A e \in events :
      /\ Returned(e) => TypeAsked(e, req.q)
      /\ ( /\ TypeAsked(e, req.q)
           /\ TimeMatches(e, req.q, req.now)
           /\ RadiusMatches(e, req.q, req.nan)
           /\ Cardinality(events) <= PublicLimit ) => Returned(e)

\* type=A,a A is asked of the seeded table: the events typed "A a" and "A"
\* come back, the one typed "AA" and the one without a type do not
C9_Witness ==
  /\ Answered
  /\ req.q.types = << >>
  /\ req.q.type = << <<"A", ",", "a", " ", "A">> >>
  /\ {"e05", "e09"} \subseteq ReturnedNames
  /\ {"e08", "e12"} \cap ReturnedNames = {}
  /\ \E e \in events : e.name = Some("e08")

DateSupplied(q) == q.date # None /\ q.date[1].k # "empty"

WindowOf(w) ==
  LET t == IF w = None THEN << >> ELSE w[1]
  IN IF SameText(t, Morning) THEN <<HMS(5, 0, 0), HMS(11, 59, 59)>>
     ELSE IF SameText(t, Afternoon) THEN <<HMS(12, 0, 0), HMS(16, 59, 59)>>
     ELSE IF SameText(t, EveningWord) THEN <<HMS(17, 0, 0), HMS(23, 59, 59)>>
     ELSE <<HMS(0, 0, 0), HMS(23, 59, 59)>>

InWindow(e, q) ==
  /\ e.start_time.d = q.date[1].d
  /\ WindowOf(q.timeOfDay)[1] <= e.start_time.s
  /\ e.start_time.s <= WindowOf(q.timeOfDay)[2]

NotPast(e, now) ==
  \/ e.start_time.d > now.d
  \/ (e.start_time.d = now.d /\ e.start_time.s >= now.s)

TimeAsked(e, q, now) == IF DateSupplied(q) THEN InWindow(e, q) ELSE NotPast(e, now)

\* C10: in an answered query, an event of the table is returned only if, when
\* a date is given, its start_time lies in the inclusive window of that date
\* for the bucket named (in any case) by timeOfDay, whatever the current
\* time, and, when no date is given, its start_time is not before now; and
\* it is returned if so whenever the type and radius predicates let it
\* through and the table is within the row limit.
C10_TimeFilter ==
  Answered =>
    \A e \in events :
      /\ Returned(e) => TimeAsked(e, req.q, req.now)
      /\ ( /\ TimeAsked(e, req.q, req.now)
           /\ TypeMatches(e, ParseTypes(req.q))
           /\ RadiusMatches(e, req.q, req.nan)
           /\ Cardinality(events) <= PublicLimit ) => Returned(e)

\* date = day 1 and timeOfDay=MORNING are asked on day 3: the events of
\* 05:00:00, 08:00:00 and 11:59:59 come back, and no other
C10_Witness ==
  /\ Answered
  /\ req.q.date = Some(Iso(1, 0))
  /\ req.q.timeOfDay = Some(<<"M", "O", "R", "N", "I", "N", "G">>)
  /\ req.q.types = << >>
  /\ req.now = Date(3, 0)
  /\ ReturnedNames = {"e04", "e05", "e06"}


ValidNumber(o) == o # None /\ o[1].k = "num"
AllValid(q) == ValidNumber(q.lat) /\ ValidNumber(q.lng) /\ ValidNumber(q.radius)
DateUsable(q) == q.date = None \/ q.date[1].k \in {"empty", "iso"}

\* C11 (as stated): a query that storage carries out and in which lat, lng
\* or radius is absent or is no valid number is answered as a query without
\* radius parameters is: 200, with every event that passes the type and time
\* predicates (the table being within the row limit); and a query with three
\* valid numbers returns no event without a location.
C11_RadiusOnlyWhenValid ==
  (req.route = "events" /\ req.failAt = 0 /\ DateUsable(req.q)) =>
    /\ ~AllValid(req.q) =>
         /\ resp.status = 200
         /\ \A e \in events :
              ( /\ TypeMatches(e, ParseTypes(req.q))
                /\ TimeMatches(e, req.q, req.now)
                /\ Cardinality(events) <= PublicLimit ) => Returned(e)
    /\ (AllValid(req.q) /\ resp.status = 200) =>
         \A e \in events : Returned(e) => e.location # None


\* ------------------------------------------- claims on failing inserts
\* the instances the request in r asks for, as <<data line, start_time>>
Asked(r) ==
  IF r.route = "create"
  THEN UNION {{<<1, insts[i].start>> : i \in 1..Len(insts)} :
                insts \in {CreateInstances(r.body)}}
  ELSE LET lines == NonEmptyLines(r.csv)
       IN UNION {UNION {{<<n, insts[i].start>> : i \in 1..Len(insts)} :
                          insts \in {RowInstances(lines[1], lines[n + 1])}} :
                 n \in 1..(Len(lines) - 1)}

\* the instance a row written by the request in r stands for
KeyOf(row, r) ==
  IF r.route = "create" THEN <<1, row.start_time>>
  ELSE LET lines == NonEmptyLines(r.csv)
       IN <<CHOOSE n \in 1..(Len(lines) - 1) : lines[n + 1][1] = TextCell(row.name[1]),
            row.start_time>>

\* file order, then ascending start_time
Before(x, y) ==
  \/ x[1] < y[1]
  \/ (x[1] = y[1] /\ x[2] # y[2] /\ DateLeq(x[2], y[2]))

EndUnusable(r) == r.route = "create" /\ r.body.end_time = Some(Garbage)

\* C12: in every creation or import request, the rows written are instances
\* the request asks for, written in file order and ascending start_time with
\* ascending ids and without a gap, on top of the rows already stored; when
\* the k-th insert fails, exactly the first k - 1 instances are written and
\* the answer is 500 Server error; when the answer is 200, all are written.
C12_PartialFailure ==
  [][ req'.route \in {"create", "import"} =>
        \A new \in {events' \ events} : \A asked \in {Asked(req')} :
           /\ events \subseteq events'
           /\ \A e \in new : KeyOf(e, req') \in asked
           /\ \A a, b \in new :
                (a.id < b.id) <=> Before(KeyOf(a, req'), KeyOf(b, req'))
           /\ \A e \in new : \A x \in asked :
                Before(x, KeyOf(e, req')) => \E d \in new : KeyOf(d, req') = x
           /\ (req'.failAt \in 1..Cardinality(asked) /\ ~EndUnusable(req')) =>
                /\ resp' = [status |-> 500, error |-> "Server error"]
                /\ Cardinality(new) = req'.failAt - 1
           /\ resp'.status = 200 => Cardinality(new) = Cardinality(asked)
     ]_vars

\* an import of two data lines, the second of three daily instances, whose
\* third insert fails: the row of the first line and the first instance of
\* the second are stored, and the answer is 500
C12_Witness ==
  /\ req.route = "import"
  /\ req.failAt = 3
  /\ Len(req.csv) = 3
  /\ Cardinality(Asked(req)) = 4
  /\ resp = [status |-> 500, error |-> "Server error"]
  /\ {e.name : e \in events} = {Some("r1"), Some("r2")}
  /\ Cardinality(events) = 2


\* ------------------------------------------------------ claims on locations
Complete(loc) == DOMAIN loc = {"lon", "lat"} /\ loc.lon \in Int /\ loc.lat \in Int

\* the location a request giving lat, lon and address may write
Available(lat, lon, address, geo) ==
  IF lat # None /\ lon # None THEN Some([lon |-> lon[1], lat |-> lat[1]])
  ELSE IF address \notin {None, Some("")} /\ geo.k = "hit"
    THEN Some([lon |-> geo.lon, lat |-> geo.lat])
  ELSE None

LineCell(line, n) == IF line[n].k = "num" THEN Some(line[n].v) ELSE None
LineAddress(line) == IF line[4].k = "text" THEN Some(line[4].v) ELSE None

Supplied == {Date(1, 0), Date(2, Evening)}

\* C14 (as stated): every stored event has a name and a type that are not
\* empty and a start_time that a request supplied.
C14_RequiredFields ==
  \A e \in events :
    /\ e.name \notin {None, Some("")}
    /\ e.type \notin {None, Some(<< >>)}
    /\ e.start_time \in Supplied

====
